---- MODULE Spec2Model ----
(***************************************************************************)
(* Model of the Claude Code web terminal backend: the ANSI stripper and    *)
(* output classifier (parser.ts), the pty-backed ClaudeSession and the     *)
(* SessionManager registry (session.ts), and the WebSocket hub (index.ts). *)
(*                                                                         *)
(* Text is a sequence of one-character strings; the escape byte 0x1b is    *)
(* the token ESC.  Node runs every handler to completion on one thread, so *)
(* each handler is one atomic action.                                      *)
(***************************************************************************)
EXTENDS Integers, Sequences, FiniteSets, TLC

\* ------------------------------------------------------------------ bounds
MaxStripLen == 6
MaxSessions == 2
NumConns == 2
MaxHandles == 3
MaxSpawn == 2
MaxBufLen == 1
MaxFedAtoms == 4
MaxCommands == 2
MaxSignals == 2

\* ------------------------------------------------------------- characters
ESC == "ESC"
NL == "\n"

LowerLetters ==
  <<"a","b","c","d","e","f","g","h","i","j","k","l","m",
    "n","o","p","q","r","s","t","u","v","w","x","y","z">>

UpperLetters ==
  <<"A","B","C","D","E","F","G","H","I","J","K","L","M",
    "N","O","P","Q","R","S","T","U","V","W","X","Y","Z">>

Range(f) == {f[i] : i \in DOMAIN f}

Letters == Range(LowerLetters) \cup Range(UpperLetters)

Digits == {"0","1","2","3","4","5","6","7","8","9"}

\* [0-9;] of ANSI_REGEX
AnsiParamChars == Digits \cup {";"}

\* All texts over alphabet A of length at most n.
TextsUpTo(A, n) == UNION {[1..k -> A] : k \in 0..n}

\* ------------------------------------------------------ parser.ts: stripAnsi
\* Index of the first character at or after i that is not in class C
\* (Len(text)+1 when there is none): the greedy scan of C*.
RECURSIVE SkipClass(_, _, _)
SkipClass(text, i, C) ==
  IF i <= Len(text) /\ text[i] \in C THEN SkipClass(text, i + 1, C) ELSE i

\* ANSI_REGEX = /\x1b\[[0-9;]*[a-zA-Z]/ anchored at i: the index of the final
\* byte of the match, or 0 when the regex does not match at i.  The parameter
\* class and the final-byte class are disjoint, so the greedy scan decides.
AnsiMatchEnd(text, i) ==
  IF i + 1 <= Len(text) /\ text[i] = ESC /\ text[i + 1] = "["
  THEN LET k == SkipClass(text, i + 2, AnsiParamChars)
       IN IF k <= Len(text) /\ text[k] \in Letters THEN k ELSE 0
  ELSE 0

\* String.prototype.replace with a /g regex: one left-to-right pass, resuming
\* after each match; replaced text is never rescanned.
RECURSIVE StripFrom(_, _)
StripFrom(text, i) ==
  IF i > Len(text) THEN <<>>
  ELSE LET e == AnsiMatchEnd(text, i)
       IN IF e > 0 THEN StripFrom(text, e + 1)
          ELSE <<text[i]>> \o StripFrom(text, i + 1)

stripAnsi(text) == StripFrom(text, 1)

\* ------------------------------------------- JavaScript string primitives
\* \s of the patterns and the characters String.prototype.trim removes.
WhiteSpace == {" ", "\t", "\r", "\n", "\f"}

\* The line terminators that "." does not match.
LineTerminators == {"\n", "\r"}

\* Case folding of the /i flag: each upper-case letter's lower-case form.
LowerOf ==
  [c \in Range(UpperLetters) |->
     LowerLetters[CHOOSE i \in DOMAIN UpperLetters : UpperLetters[i] = c]]

ToLower(c) == IF c \in DOMAIN LowerOf THEN LowerOf[c] ELSE c

Slice(text, from, to) == [i \in 1..(to - from + 1) |-> text[from + i - 1]]

\* Index of the last character that is not white space, scanning back from i.
RECURSIVE TrimEnd(_, _)
TrimEnd(text, i) ==
  IF i >= 1 /\ text[i] \in WhiteSpace THEN TrimEnd(text, i - 1) ELSE i

\* String.prototype.trim
Trim(text) ==
  LET a == SkipClass(text, 1, WhiteSpace)
      b == TrimEnd(text, Len(text))
  IN IF a > b THEN <<>> ELSE Slice(text, a, b)

\* String.prototype.split('\n'): the pieces between terminators, at least one.
RECURSIVE SplitFrom(_, _, _)
SplitFrom(text, i, cur) ==
  IF i > Len(text) THEN <<cur>>
  ELSE IF text[i] = NL THEN <<cur>> \o SplitFrom(text, i + 1, <<>>)
  ELSE SplitFrom(text, i + 1, Append(cur, text[i]))

Split(text) == SplitFrom(text, 1, <<>>)

\* Array.prototype.join('\n')
RECURSIVE Join(_)
Join(lines) ==
  IF Len(lines) = 0 THEN <<>>
  ELSE IF Len(lines) = 1 THEN lines[1]
  ELSE lines[1] \o <<NL>> \o Join(Tail(lines))

\* text.includes(needle)
Includes(text, needle) ==
  \E i \in 1..(Len(text) - Len(needle) + 1) :
    \A j \in 1..Len(needle) : text[i + j - 1] = needle[j]

\* ----------------------------------------------- regular-expression matcher
\* A pattern is [anchored, els]; an element is one of
\*   "ch"   the literal character c (compared case-insensitively, /i)
\*   "ws+"  \s+      "ws*"  \s*      "d+"  \d+      "cap"  (.+), group 1
Lit(word) == [i \in DOMAIN word |-> [k |-> "ch", c |-> word[i]]]
WS1 == <<[k |-> "ws+", c |-> ""]>>
WS0 == <<[k |-> "ws*", c |-> ""]>>
D1 == <<[k |-> "d+", c |-> ""]>>
CAP == <<[k |-> "cap", c |-> ""]>>
Re(els) == [anchored |-> FALSE, els |-> els]
ReAnchored(els) == [anchored |-> TRUE, els |-> els]

NoMatch == [ok |-> FALSE, cs |-> 0, ce |-> 0]

\* Index just past the run of characters an element's class matches from i.
RunEnd(el, text, i) ==
  IF el.k \in {"ws+", "ws*"} THEN SkipClass(text, i, WhiteSpace)
  ELSE IF el.k = "d+" THEN SkipClass(text, i, Digits)
  ELSE SkipClass(text, i, Range(text) \ LineTerminators)

MinRun(el) == IF el.k = "ws*" THEN 0 ELSE 1

\* Backtracking match of els[j..] at position i: the first success in the
\* engine's preference order (quantifiers greedy, giving back one character
\* at a time), with the span of capture group 1.
RECURSIVE MatchEls(_, _, _, _)
RECURSIVE MatchRun(_, _, _, _, _)
MatchEls(els, j, text, i) ==
  IF j > Len(els) THEN [ok |-> TRUE, cs |-> 0, ce |-> 0]
  ELSE IF els[j].k = "ch"
    THEN IF i <= Len(text) /\ ToLower(text[i]) = ToLower(els[j].c)
         THEN MatchEls(els, j + 1, text, i + 1)
         ELSE NoMatch
  ELSE MatchRun(els, j, text, i, RunEnd(els[j], text, i))

\* The quantified element els[j] takes text[i..e-1]; on failure of the rest
\* it gives back one character and tries again.
MatchRun(els, j, text, i, e) ==
  IF e - i < MinRun(els[j]) THEN NoMatch
  ELSE LET rest == MatchEls(els, j + 1, text, e)
       IN IF rest.ok
          THEN IF els[j].k = "cap" THEN [ok |-> TRUE, cs |-> i, ce |-> e - 1]
               ELSE rest
          ELSE MatchRun(els, j, text, i, e - 1)

\* The leftmost match: start positions are tried in increasing order.
RECURSIVE MatchFrom(_, _, _)
MatchFrom(pat, text, i) ==
  IF i > Len(text) + 1 THEN NoMatch
  ELSE LET m == MatchEls(pat.els, 1, text, i)
       IN IF m.ok \/ pat.anchored THEN m ELSE MatchFrom(pat, text, i + 1)

\* text.match(pattern) / pattern.test(text) (no pattern has the g or y flag)
Match(pat, text) == MatchFrom(pat, text, 1)

\* ------------------------------------------------ parser.ts: the patterns
\* The tools in Object.entries order, each with its patterns in array order.
TOOL_START_PATTERNS ==
  <<[tool |-> "Read", re |-> Re(Lit(<<"R","e","a","d","i","n","g">>) \o WS1 \o CAP)],
    [tool |-> "Read", re |-> Re(Lit(<<"R","e","a","d">>) \o WS1 \o Lit(<<"f","i","l","e">>))],
    [tool |-> "Write", re |-> Re(Lit(<<"W","r","i","t","i","n","g">>) \o WS1 \o CAP)],
    [tool |-> "Write", re |-> Re(Lit(<<"C","r","e","a","t","i","n","g">>) \o WS1 \o Lit(<<"f","i","l","e">>))],
    [tool |-> "Write", re |-> Re(Lit(<<"W","r","i","t","e">>) \o WS1 \o Lit(<<"f","i","l","e">>))],
    [tool |-> "Edit", re |-> Re(Lit(<<"E","d","i","t","i","n","g">>) \o WS1 \o CAP)],
    [tool |-> "Edit", re |-> Re(Lit(<<"E","d","i","t">>) \o WS1 \o Lit(<<"f","i","l","e">>))],
    [tool |-> "Edit", re |-> Re(Lit(<<"U","p","d","a","t","i","n","g">>) \o WS1 \o CAP)],
    [tool |-> "Bash", re |-> Re(Lit(<<"R","u","n","n","i","n","g">>) \o WS1 \o CAP)],
    [tool |-> "Bash", re |-> Re(Lit(<<"E","x","e","c","u","t","i","n","g">>) \o WS1 \o CAP)],
    [tool |-> "Bash", re |-> Re(Lit(<<"$">>) \o WS1 \o CAP)],
    [tool |-> "Glob", re |-> Re(Lit(<<"S","e","a","r","c","h","i","n","g">>) \o WS1 \o Lit(<<"f","o","r">>) \o WS1 \o Lit(<<"f","i","l","e","s">>))],
    [tool |-> "Glob", re |-> Re(Lit(<<"F","i","n","d","i","n","g">>) \o WS1 \o Lit(<<"f","i","l","e","s">>))],
    [tool |-> "Glob", re |-> Re(Lit(<<"G","l","o","b">>))],
    [tool |-> "Grep", re |-> Re(Lit(<<"S","e","a","r","c","h","i","n","g">>) \o WS1 \o CAP)],
    [tool |-> "Grep", re |-> Re(Lit(<<"G","r","e","p">>))],
    [tool |-> "WebFetch", re |-> Re(Lit(<<"F","e","t","c","h","i","n","g">>) \o WS1 \o CAP)],
    [tool |-> "WebFetch", re |-> Re(Lit(<<"W","e","b","F","e","t","c","h">>))],
    [tool |-> "Task", re |-> Re(Lit(<<"L","a","u","n","c","h","i","n","g">>) \o WS1 \o Lit(<<"a","g","e","n","t">>))],
    [tool |-> "Task", re |-> Re(Lit(<<"T","a","s","k">>))]>>

\* The tools in Object.entries order, each with its patterns in array order.
TOOL_END_PATTERNS ==
  <<[tool |-> "Read", re |-> Re(Lit(<<"R","e","a","d">>) \o WS1 \o D1 \o WS1 \o Lit(<<"l","i","n","e","s">>))],
    [tool |-> "Read", re |-> Re(Lit(<<"F","i","l","e">>) \o WS1 \o Lit(<<"r","e","a","d">>))],
    [tool |-> "Write", re |-> Re(Lit(<<"F","i","l","e">>) \o WS1 \o Lit(<<"c","r","e","a","t","e","d">>))],
    [tool |-> "Write", re |-> Re(Lit(<<"F","i","l","e">>) \o WS1 \o Lit(<<"w","r","i","t","t","e","n">>))],
    [tool |-> "Write", re |-> Re(Lit(<<"W","r","o","t","e">>) \o WS1 \o D1 \o WS1 \o Lit(<<"l","i","n","e","s">>))],
    [tool |-> "Edit", re |-> Re(Lit(<<"F","i","l","e">>) \o WS1 \o Lit(<<"e","d","i","t","e","d">>))],
    [tool |-> "Edit", re |-> Re(Lit(<<"U","p","d","a","t","e","d">>) \o WS1 \o CAP)],
    [tool |-> "Edit", re |-> Re(Lit(<<"E","d","i","t">>) \o WS1 \o Lit(<<"s","u","c","c","e","s","s","f","u","l">>))],
    [tool |-> "Bash", re |-> Re(Lit(<<"C","o","m","m","a","n","d">>) \o WS1 \o Lit(<<"c","o","m","p","l","e","t","e","d">>))],
    [tool |-> "Bash", re |-> Re(Lit(<<"E","x","i","t">>) \o WS1 \o Lit(<<"c","o","d","e">>))]>>

\* All carry the /i flag.
PERMISSION_PATTERNS ==
  <<Re(Lit(<<"A","l","l","o","w">>) \o WS1 \o Lit(<<"t","h","i","s">>) \o WS1 \o Lit(<<"a","c","t","i","o","n","?">>)),
    Re(Lit(<<"D","o">>) \o WS1 \o Lit(<<"y","o","u">>) \o WS1 \o Lit(<<"w","a","n","t">>) \o WS1 \o Lit(<<"t","o">>) \o WS1 \o Lit(<<"p","r","o","c","e","e","d","?">>)),
    Re(Lit(<<"[","y","/","n","]">>)),
    Re(Lit(<<"(","y","/","N",")">>)),
    Re(Lit(<<"(","Y","/","n",")">>)),
    Re(Lit(<<"P","r","e","s","s">>) \o WS1 \o Lit(<<"y">>) \o WS1 \o Lit(<<"t","o">>) \o WS1 \o Lit(<<"c","o","n","f","i","r","m">>)),
    Re(Lit(<<"A","p","p","r","o","v","e","?">>))>>

\* All anchored at the start of the text; I('m| am) is written as its two alternatives.
THINKING_PATTERNS ==
  <<ReAnchored(WS0 \o Lit(<<"[","t","h","i","n","k","i","n","g","]">>)),
    ReAnchored(WS0 \o Lit(<<"T","h","i","n","k","i","n","g",".",".",".">>)),
    ReAnchored(WS0 \o Lit(<<"L","e","t"," ","m","e"," ","t","h","i","n","k">>)),
    ReAnchored(WS0 \o Lit(<<"I","'","m">>) \o WS1 \o Lit(<<"t","h","i","n","k","i","n","g">>)),
    ReAnchored(WS0 \o Lit(<<"I"," ","a","m">>) \o WS1 \o Lit(<<"t","h","i","n","k","i","n","g">>))>>

\* ----------------------------------------------- parser.ts: the detectors
\* Index of the first pattern of the table that matches (0: none): the
\* nested for-loops return at the first match.
RECURSIVE FirstMatch(_, _, _)
FirstMatch(table, text, n) ==
  IF n > Len(table) THEN 0
  ELSE IF Match(table[n].re, text).ok THEN n
  ELSE FirstMatch(table, text, n + 1)

\* match[1] || cleanText.trim(): group 1 is never empty when it took part.
ToolContent(m, cleanText) ==
  IF m.cs > 0 THEN Slice(cleanText, m.cs, m.ce) ELSE Trim(cleanText)

\* detectToolStart / detectToolEnd over their table: null is [found |-> FALSE].
DetectTool(table, status, text) ==
  LET cleanText == stripAnsi(text)
      n == FirstMatch(table, cleanText, 1)
  IN IF n = 0 THEN [found |-> FALSE]
     ELSE [found |-> TRUE, tool |-> table[n].tool, status |-> status,
           content |-> ToolContent(Match(table[n].re, cleanText), cleanText)]

detectToolStart(text) == DetectTool(TOOL_START_PATTERNS, "start", text)

detectToolEnd(text) == DetectTool(TOOL_END_PATTERNS, "end", text)

detectPermission(text) ==
  LET cleanText == stripAnsi(text)
  IN IF \E n \in DOMAIN PERMISSION_PATTERNS : Match(PERMISSION_PATTERNS[n], cleanText).ok
     THEN [found |-> TRUE, request |-> Trim(cleanText), type |-> "confirm"]
     ELSE [found |-> FALSE]

detectThinking(text) ==
  LET cleanText == stripAnsi(text)
  IN \/ \E n \in DOMAIN THINKING_PATTERNS : Match(THINKING_PATTERNS[n], cleanText).ok
     \/ Includes(text, <<ESC, "[", "2", "m">>)
     \/ Includes(text, <<ESC, "[", "3", "m">>)

\* Mutant: the tool-start check runs before the permission check.
ParseLineToolFirst(line) ==
  IF Trim(line) = <<>> THEN <<>>
  ELSE LET permission == detectPermission(line)
           toolStart == detectToolStart(line)
       IN IF toolStart.found
          THEN <<[type |-> "toolStart", content |-> toolStart.content,
                  tool |-> toolStart.tool]>>
          ELSE IF permission.found
          THEN <<[type |-> "permission", content |-> line,
                  request |-> permission.request]>>
          ELSE <<[type |-> "text", content |-> stripAnsi(line)]>>

\* Mutant: a blank line is not skipped but reported as plain text.
ParseLineKeepsBlank(line) ==
  LET permission == detectPermission(line)
      toolStart == detectToolStart(line)
      toolEnd == detectToolEnd(line)
  IN IF permission.found
     THEN <<[type |-> "permission", content |-> line,
             request |-> permission.request]>>
     ELSE IF toolStart.found
     THEN <<[type |-> "toolStart", content |-> toolStart.content,
             tool |-> toolStart.tool]>>
     ELSE IF toolEnd.found
     THEN <<[type |-> "toolEnd", content |-> toolEnd.content,
             tool |-> toolEnd.tool]>>
     ELSE IF detectThinking(line)
     THEN <<[type |-> "thinking", content |-> stripAnsi(line)]>>
     ELSE <<[type |-> "text", content |-> stripAnsi(line)]>>

\* Mutant: the tool-end check runs before the tool-start check.
ParseLineEndFirst(line) ==
  IF Trim(line) = <<>> THEN <<>>
  ELSE LET permission == detectPermission(line)
           toolStart == detectToolStart(line)
           toolEnd == detectToolEnd(line)
       IN IF permission.found
          THEN <<[type |-> "permission", content |-> line,
                  request |-> permission.request]>>
          ELSE IF toolEnd.found
          THEN <<[type |-> "toolEnd", content |-> toolEnd.content,
                  tool |-> toolEnd.tool]>>
          ELSE IF toolStart.found
          THEN <<[type |-> "toolStart", content |-> toolStart.content,
                  tool |-> toolStart.tool]>>
          ELSE IF detectThinking(line)
          THEN <<[type |-> "thinking", content |-> stripAnsi(line)]>>
          ELSE <<[type |-> "text", content |-> stripAnsi(line)]>>

\* One iteration of parseOutput's loop: the results pushed for one line.
ParseLine(line) ==
  IF Trim(line) = <<>> THEN <<>>
  ELSE LET permission == detectPermission(line)
           toolStart == detectToolStart(line)
           toolEnd == detectToolEnd(line)
       IN IF permission.found
          THEN <<[type |-> "permission", content |-> line,
                  request |-> permission.request]>>
          ELSE IF toolStart.found
          THEN <<[type |-> "toolStart", content |-> toolStart.content,
                  tool |-> toolStart.tool]>>
          ELSE IF toolEnd.found
          THEN <<[type |-> "toolEnd", content |-> toolEnd.content,
                  tool |-> toolEnd.tool]>>
          ELSE IF detectThinking(line)
          THEN <<[type |-> "thinking", content |-> stripAnsi(line)]>>
          ELSE <<[type |-> "text", content |-> stripAnsi(line)]>>

RECURSIVE ParseLines(_)
ParseLines(lines) ==
  IF Len(lines) = 0 THEN <<>>
  ELSE ParseLine(Head(lines)) \o ParseLines(Tail(lines))

parseOutput(text) == ParseLines(Split(text))

\* One ParsedOutput item as the WebSocket message outputToMessages builds.
ToMessage(sessionId, item) ==
  IF item.type = "text"
  THEN [type |-> "output", sessionId |-> sessionId, content |-> item.content,
        streamType |-> "stdout"]
  ELSE IF item.type = "thinking"
  THEN [type |-> "thinking", sessionId |-> sessionId, content |-> item.content]
  ELSE IF item.type = "toolStart"
  THEN [type |-> "toolUse", sessionId |-> sessionId, tool |-> item.tool,
        status |-> "start", content |-> item.content]
  ELSE IF item.type = "toolEnd"
  THEN [type |-> "toolUse", sessionId |-> sessionId, tool |-> item.tool,
        status |-> "end", content |-> item.content]
  ELSE [type |-> "permission", sessionId |-> sessionId,
        request |-> item.request, content |-> item.content]

outputToMessages(sessionId, parsed) ==
  [i \in DOMAIN parsed |-> ToMessage(sessionId, parsed[i])]

\* ------------------------------------------------------------------ state
Sids == 1..MaxSessions
Conns == 1..NumConns

\* setTimeout(..., 60000) of SessionManager.createSession
GraceMs == 60000

\* The exit codes a child can report.
ExitCodes == {0, 1}

VARIABLES
  \* SessionManager
  nextId,        \* sessions constructed so far + 1 (uuidv4 mints a fresh id)
  sessions,      \* keys of SessionManager.sessions
  timers,        \* per session, its pending eviction timers: [delay, elapsed] in ms
  \* ClaudeSession, per id
  isActive,      \* this.isActive
  pty,           \* this.pty: 0 is null, k > 0 is the k-th process it spawned
  outputBuffer,  \* this.outputBuffer
  procs,         \* the child processes spawned by start(), in spawn order
  \* index.ts
  hubListeners,  \* how many times subscribeToSession attached its listener pair
  sessionConnections, \* the Map sessionId -> Set<WebSocket>
  conn,          \* each WebSocket: "none" (not yet connected), "open",
                 \* "closing" (close frame seen, 'close' not yet emitted), "closed"
  listening,     \* the HTTP server accepts connections
  \* what the last handler to run did, in order
  emitted,       \* events the sessions emitted: [sid, ev, msg]
  sent,          \* per connection, the messages ws.send was given
  written,       \* pty.write calls: [sid, proc, data]
  killed,        \* pty.kill calls: <<sid, proc>>
  resized,       \* pty.resize calls: <<sid, proc>>
  result,        \* what the handler gave its caller: start()'s promise
                 \* ("resolved", "rejected"), the HTTP status of POST /start
                 \* ("200", "500"), "none" for the others
  \* history
  stopped,       \* the sessions stop() has been called on
  commands,      \* per connection and session, how many commands of the connection
                 \* handleClientMessage accepted for the session (recorded up to MaxCommands)
  shutdown,      \* the calls of the signal handlers and of their server.close
                 \* callback, in order (recorded up to MaxSignals signals)
  \* output pipeline history
  fed,           \* concatenation of all chunks handed to handleOutput
  lineLog,       \* all 'message' events handleOutput emitted, in order
  fedAtoms,      \* how many pieces the chunks so far were made of
  \* stripAnsi check
  stripIn,      \* the input text x
  stripOnce,    \* stripAnsi(x) once computed
  stripTwice,   \* stripAnsi(stripAnsi(x)) once computed
  stripPasses   \* how many passes have been applied (0..2)

registryVars == <<nextId, sessions, timers>>
sessionVars == <<isActive, pty, outputBuffer, procs>>
hubVars == <<hubListeners, sessionConnections, conn, listening>>
effectVars == <<emitted, sent, written, killed, resized, result>>
outVars == <<fed, lineLog, fedAtoms>>
stripVars == <<stripIn, stripOnce, stripTwice, stripPasses>>

vars ==
  <<nextId, sessions, timers, isActive, pty, outputBuffer, procs,
    hubListeners, sessionConnections, conn, listening,
    emitted, sent, written, killed, resized, result, stopped, commands, shutdown,
    fed, lineLog, fedAtoms, stripIn, stripOnce, stripTwice, stripPasses>>

NoSent == [c \in Conns |-> <<>>]

\* new Map()
EmptyMap == [k \in {} |-> {}]

\* The state right after module load: empty registry, empty hub, listening.
InitSystemVars ==
  /\ nextId = 1
  /\ sessions = {}
  /\ timers = [s \in Sids |-> {}]
  /\ isActive = [s \in Sids |-> FALSE]
  /\ pty = [s \in Sids |-> 0]
  /\ outputBuffer = [s \in Sids |-> <<>>]
  /\ procs = [s \in Sids |-> <<>>]
  /\ hubListeners = [s \in Sids |-> 0]
  /\ sessionConnections = EmptyMap
  /\ conn = [c \in Conns |-> "none"]
  /\ listening = TRUE
  /\ emitted = <<>>
  /\ sent = NoSent
  /\ written = <<>>
  /\ killed = {}
  /\ resized = {}
  /\ result = "none"
  /\ stopped = {}
  /\ commands = [c \in Conns |-> [s \in Sids |-> 0]]
  /\ shutdown = <<>>

InitOutVars ==
  /\ fed = <<>>
  /\ lineLog = <<>>

IdleStripVars ==
  /\ stripIn = <<>>
  /\ stripOnce = <<>>
  /\ stripTwice = <<>>
  /\ stripPasses = 0

\* --------------------------------------------- session.ts: ClaudeSession
Emit(sid, ev, msg) == [sid |-> sid, ev |-> ev, msg |-> msg]

EmitAll(sid, ev, msgs) == [i \in DOMAIN msgs |-> Emit(sid, ev, msgs[i])]

\* Mutant: the error object names no session.
ErrorMessageNoId(sid, text) == [type |-> "error", message |-> text]

ErrorMessage(sid, text) == [type |-> "error", sessionId |-> sid, message |-> text]

\* A process as node-pty reports it: "running" until onExit fires, then "exited".
NewProc == "running"

\* Mutant: sessionStart is not emitted before start() returns.
StartOkEmitsLater(s) == <<>>

\* start(), the spawn succeeding: whatever the state, a process is spawned,
\* this.pty is overwritten, isActive is set and sessionStart is emitted.
StartOkProcs(s) == [procs EXCEPT ![s] = Append(procs[s], NewProc)]
StartOkPty(s) == [pty EXCEPT ![s] = Len(procs[s]) + 1]
StartOkActive(s) == [isActive EXCEPT ![s] = TRUE]
StartOkEmits(s) == <<Emit(s, "message", [type |-> "sessionStart", sessionId |-> s])>>

\* start(), pty.spawn throwing: the catch block emits an error and rethrows.
StartFailEmits(s) ==
  <<Emit(s, "message", ErrorMessage(s, "Failed to start Claude session"))>>

\* Mutant: the guard without the isActive test.
CanWriteIfPty(s) == pty[s] # 0

\* The guard shared by send, interrupt and confirm, negated.
CanWrite(s) == pty[s] # 0 /\ isActive[s]

send_emits(s, input) ==
  IF CanWrite(s) THEN <<>>
  ELSE <<Emit(s, "message", ErrorMessage(s, "Session is not active"))>>

send_writes(s, input) ==
  IF CanWrite(s) THEN <<[sid |-> s, proc |-> pty[s], data |-> input \o <<NL>>]>>
  ELSE <<>>

interrupt_writes(s) ==
  IF CanWrite(s) THEN <<[sid |-> s, proc |-> pty[s], data |-> <<ESC>>]>> ELSE <<>>

\* Mutant: the answer written is always y.
confirm_writesYes(s, yes) ==
  IF CanWrite(s) THEN <<[sid |-> s, proc |-> pty[s], data |-> <<"y", NL>>]>> ELSE <<>>

confirm_writes(s, yes) ==
  IF CanWrite(s)
  THEN <<[sid |-> s, proc |-> pty[s], data |-> IF yes THEN <<"y", NL>> ELSE <<"n", NL>>]>>
  ELSE <<>>

\* Mutant: stop() leaves isActive to the exit callback.
StopActiveLater(S) == isActive

\* Mutant: stop() signals whether or not it holds a process.
StopKilledAlways(S) == {<<s, pty[s]>> : s \in S}

\* resize(): pty.resize whenever a pty handle is held.
resize_calls(s) == IF pty[s] # 0 THEN {<<s, pty[s]>>} ELSE {}

\* Mutant: stop() on one session drops the handle of every session.
StopPtyAll(S) == IF S = {} THEN pty ELSE [s \in Sids |-> 0]

\* stop() on every session of S, one after the other.
StopActive(S) == [s \in Sids |-> IF s \in S /\ pty[s] # 0 THEN FALSE ELSE isActive[s]]
StopPty(S) == [s \in Sids |-> IF s \in S THEN 0 ELSE pty[s]]
StopKilled(S) == {<<s, pty[s]>> : s \in {t \in S : pty[t] # 0}}

\* getState(): the SessionState snapshot (workingDirectory, model and
\* createdAt are fixed at construction and carry no behaviour).
getState(s) == [id |-> s, isActive |-> isActive[s]]

\* Mutant: the buffered partial line is dropped.
HoTextNoBuffer(buf, data) == data

\* Mutant: the buffer keeps the complete lines too.
HoBufferWhole(buf, data) == buf \o data

\* handleOutput
HoText(buf, data) == buf \o data
HoLines(buf, data) == Split(HoText(buf, data))
\* lines.pop() || ''
HoBuffer(buf, data) == HoLines(buf, data)[Len(HoLines(buf, data))]
HoComplete(buf, data) == SubSeq(HoLines(buf, data), 1, Len(HoLines(buf, data)) - 1)
HoMessages(sid, buf, data) ==
  IF Len(HoComplete(buf, data)) > 0
  THEN outputToMessages(sid, parseOutput(Join(HoComplete(buf, data))))
  ELSE <<>>
HoRaw(sid, data) ==
  LET cleanData == stripAnsi(data)
  IN IF Trim(cleanData) # <<>>
     THEN <<[type |-> "output", sessionId |-> sid, content |-> cleanData,
             streamType |-> "stdout"]>>
     ELSE <<>>
\* Mutant: the raw output is emitted before the lines are processed.
handleOutput_emitsRawFirst(sid, buf, data) ==
  EmitAll(sid, "rawOutput", HoRaw(sid, data))
    \o EmitAll(sid, "message", HoMessages(sid, buf, data))

handleOutput_emits(sid, buf, data) ==
  EmitAll(sid, "message", HoMessages(sid, buf, data))
    \o EmitAll(sid, "rawOutput", HoRaw(sid, data))

\* Mutant: a stopped session's exit emits no sessionEnd.
OnExitEmitsUnlessStopped(s, exitCode) ==
  <<Emit(s, "exit", [exitCode |-> exitCode])>>
    \o (IF pty[s] = 0 THEN <<>>
        ELSE <<Emit(s, "message", [type |-> "sessionEnd", sessionId |-> s,
                                   exitCode |-> exitCode])>>)

\* The onExit callback registered by start(): isActive is cleared, then
\* 'exit' and the sessionEnd message are emitted.
OnExitEmits(s, exitCode) ==
  <<Emit(s, "exit", [exitCode |-> exitCode]),
    Emit(s, "message", [type |-> "sessionEnd", sessionId |-> s, exitCode |-> exitCode])>>

\* -------------------------------------------- session.ts: SessionManager
\* Mutant: the lookup finds every Session ever created, evicted or not.
getSessionEver(id) == IF id \in Sids /\ id < nextId THEN id ELSE 0

getSession(id) == IF id \in sessions THEN id ELSE 0

\* The delay createSession's 'exit' listener gives setTimeout.
EvictionDelay == GraceMs

\* Mutant: the session is evicted without a grace window.
OnExitTimersNow(s) ==
  [timers EXCEPT ![s] = timers[s] \cup {[delay |-> 0, elapsed |-> 0]}]

\* The 'exit' listener of createSession: one more eviction timer.
OnExitTimers(s) ==
  [timers EXCEPT ![s] = timers[s] \cup {[delay |-> EvictionDelay, elapsed |-> 0]}]

\* ------------------------------------------------------ index.ts: the hub
Repeat(x, n) == [i \in 1..n |-> x]

\* Mutant: the readyState test is left out.
BroadcastAnyState(subs, sid, msg, c) ==
  IF sid \in DOMAIN subs /\ c \in subs[sid] THEN <<msg>> ELSE <<>>

\* Mutant: the message goes to every open connection, subscribed or not.
BroadcastEveryone(subs, sid, msg, c) ==
  IF conn[c] = "open" THEN <<msg>> ELSE <<>>

\* Mutant: the loop over the connections stops after the first one.
BroadcastFirstOnly(subs, sid, msg, c) ==
  IF sid \in DOMAIN subs /\ c \in subs[sid] /\ conn[c] = "open"
       /\ \A d \in subs[sid] : c <= d
  THEN <<msg>> ELSE <<>>

\* broadcastToSession for one connection: the message, if the connection is
\* in the session's set and OPEN.  JSON.stringify is applied once per call
\* and every receiver gets that same text; the text is the message here.
Broadcast(subs, sid, msg, c) ==
  IF sid \in DOMAIN subs /\ c \in subs[sid] /\ conn[c] = "open"
  THEN <<msg>> ELSE <<>>

\* Mutant: the events of one handler are sent last first.
RECURSIVE FanoutReversed(_, _, _, _)
FanoutReversed(lst, subs, emits, c) ==
  IF Len(emits) = 0 THEN <<>>
  ELSE LET e == Head(emits)
           one == IF e.ev \in {"message", "rawOutput"}
                  THEN Broadcast(subs, e.sid, e.msg, c) ELSE <<>>
           copies == IF Len(one) = 0 THEN <<>> ELSE Repeat(one[1], lst[e.sid])
       IN FanoutReversed(lst, subs, Tail(emits), c) \o copies

\* What connection c is sent while the sessions emit `emits`, with lst[sid]
\* listener pairs attached (each runs broadcastToSession) and the Map subs.
RECURSIVE Fanout(_, _, _, _)
Fanout(lst, subs, emits, c) ==
  IF Len(emits) = 0 THEN <<>>
  ELSE LET e == Head(emits)
           one == IF e.ev \in {"message", "rawOutput"}
                  THEN Broadcast(subs, e.sid, e.msg, c) ELSE <<>>
           copies == IF Len(one) = 0 THEN <<>> ELSE Repeat(one[1], lst[e.sid])
       IN copies \o Fanout(lst, subs, Tail(emits), c)

FanoutAll(lst, subs, emits) == [c \in Conns |-> Fanout(lst, subs, emits, c)]

\* Emission with the hub as it stands.
Delivered(emits) == FanoutAll(hubListeners, sessionConnections, emits)

\* ---------------------------------------------------------------- actions
\* What a handler did: the events emitted, the messages it sent itself, the
\* pty writes and the kill signals; every emitted event is fanned out by the
\* hub as it stands after the handler's own changes to the hub (lst, subs).
Effects(emits, lst, subs, direct, writes, kills, resizes, res) ==
  /\ emitted' = emits
  /\ sent' = [c \in Conns |-> direct[c] \o Fanout(lst, subs, emits, c)]
  /\ written' = writes
  /\ killed' = kills
  /\ resized' = resizes
  /\ result' = res

\* A handler that resizes no pty and hands nothing to a caller.
Did(emits, lst, subs, direct, writes, kills) ==
  Effects(emits, lst, subs, direct, writes, kills, {}, "none")

Quiet == Did(<<>>, hubListeners, sessionConnections, NoSent, <<>>, {})

\* Sessions constructed plus WebSocket connections accepted so far.
Handles == (nextId - 1) + Cardinality({c \in Conns : conn[c] # "none"})

\* SessionManager.createSession: a fresh id enters the Map (the 'exit'
\* listener it attaches is OnExitTimers).
CreateSession ==
  /\ nextId \in Sids
  /\ Handles < MaxHandles
  /\ nextId' = nextId + 1
  /\ sessions' = sessions \cup {nextId}

\* session.start() with the given spawn outcome.
Start(s, ok) ==
  IF ok
  THEN /\ procs' = StartOkProcs(s)
       /\ pty' = StartOkPty(s)
       /\ isActive' = StartOkActive(s)
       /\ UNCHANGED outputBuffer
  ELSE UNCHANGED sessionVars

StartEmits(s, ok) == IF ok THEN StartOkEmits(s) ELSE StartFailEmits(s)

\* Mutant: the catch block swallows the failure.
StartResultSwallowed(ok) == "resolved"

\* The catch block rethrows: the promise start() returns is rejected.
StartResult(ok) == IF ok THEN "resolved" ELSE "rejected"

\* The route's try/catch around createSession and start(): 200 or 500.
RouteStartStatus(ok) == IF StartResult(ok) = "rejected" THEN "500" ELSE "200"

\* POST /api/session/start: createSession, then start() (start has no await,
\* so both run in the same turn); a spawn failure leaves the session in the Map.
RouteStart(ok) ==
  /\ CreateSession
  /\ Start(nextId, ok)
  /\ Effects(StartEmits(nextId, ok),
             hubListeners, sessionConnections, NoSent, <<>>, {}, {}, RouteStartStatus(ok))
  /\ UNCHANGED <<timers, hubVars, outVars, stripVars, stopped, commands, shutdown>>

\* SessionManager.stopSession(id) / POST /api/session/:id/stop
RouteStop(id) ==
  LET S == IF id \in sessions THEN {id} ELSE {}
  IN /\ isActive' = StopActive(S)
     /\ pty' = StopPty(S)
     /\ Did(<<>>, hubListeners, sessionConnections, NoSent,
            <<>>, StopKilled(S))
     /\ stopped' = stopped \cup S
     /\ UNCHANGED <<commands, shutdown>>
     /\ UNCHANGED <<outputBuffer, procs, registryVars, hubVars, outVars, stripVars>>

\* SIGTERM / SIGINT: stopAllSessions (stop each, clear the Map), server.close().
Signal ==
  /\ isActive' = StopActive(sessions)
  /\ pty' = StopPty(sessions)
  /\ sessions' = {}
  /\ listening' = FALSE
  /\ Did(<<>>, hubListeners, sessionConnections, NoSent,
         <<>>, StopKilled(sessions))
  /\ stopped' = stopped \cup sessions
  /\ UNCHANGED commands
  /\ UNCHANGED <<nextId, timers, outputBuffer, procs, hubListeners, sessionConnections,
                 conn, outVars, stripVars>>

\* The k-th process of session s exits with exitCode: its onExit callback.
ProcExit(s, k, exitCode) ==
  /\ k \in DOMAIN procs[s]
  /\ procs[s][k] = "running"
  /\ procs' = [procs EXCEPT ![s][k] = "exited"]
  /\ isActive' = [isActive EXCEPT ![s] = FALSE]
  /\ timers' = OnExitTimers(s)
  /\ Did(OnExitEmits(s, exitCode), hubListeners, sessionConnections, NoSent, <<>>, {})
  /\ UNCHANGED <<nextId, sessions, pty, outputBuffer, hubVars, outVars, stripVars, stopped, commands, shutdown>>

\* Time passes: half the grace window per step.
TickMs == GraceMs \div 2

Max(a, b) == IF a > b THEN a ELSE b
Min(a, b) == IF a < b THEN a ELSE b

Tick ==
  /\ \E s \in Sids : \E t \in timers[s] : t.elapsed < GraceMs
  /\ timers' = [s \in Sids |->
                  {[t EXCEPT !.elapsed = Min(GraceMs, @ + TickMs)] : t \in timers[s]}]
  /\ Quiet
  /\ UNCHANGED <<nextId, sessions, sessionVars, hubVars, outVars, stripVars, stopped, commands, shutdown>>

\* Mutant: the timer's callback deletes nothing.
TimerFireKeeps(s, t) ==
  /\ t \in timers[s]
  /\ t.elapsed >= t.delay
  /\ timers' = [timers EXCEPT ![s] = @ \ {t}]
  /\ Quiet
  /\ UNCHANGED <<nextId, sessions, sessionVars, hubVars, outVars, stripVars, stopped, commands, shutdown>>

\* An eviction timer whose delay has passed runs: sessions.delete(session.id).
TimerFire(s, t) ==
  /\ t \in timers[s]
  /\ t.elapsed >= t.delay
  /\ timers' = [timers EXCEPT ![s] = @ \ {t}]
  /\ sessions' = sessions \ {s}
  /\ Quiet
  /\ UNCHANGED <<nextId, sessionVars, hubVars, outVars, stripVars, stopped, commands, shutdown>>

\* pty.onData of the k-th process of session s: handleOutput(data).
HandleOutput(s, k, data) ==
  /\ k \in DOMAIN procs[s]
  /\ procs[s][k] = "running"
  /\ outputBuffer' = [outputBuffer EXCEPT ![s] = HoBuffer(outputBuffer[s], data)]
  /\ Did(handleOutput_emits(s, outputBuffer[s], data),
         hubListeners, sessionConnections, NoSent, <<>>, {})
  /\ UNCHANGED <<isActive, pty, procs, registryVars, hubVars, stripVars, stopped, commands, shutdown>>

\* The chunks the children of the whole system write.
SysChunks == {<<"a">>, <<NL>>, <<"a", NL>>}

PtyData(s, k, data) ==
  /\ Len(HoBuffer(outputBuffer[s], data)) <= MaxBufLen
  /\ HandleOutput(s, k, data)
  /\ UNCHANGED outVars

\* wss.on('connection'): a new WebSocket object (the handles are used in
\* order, as the session ids are); the acknowledgement is sent.
WsConnect(c) ==
  /\ listening
  /\ conn[c] = "none"
  /\ \A d \in 1..(c - 1) : conn[d] # "none"
  /\ Handles < MaxHandles
  /\ conn' = [conn EXCEPT ![c] = "open"]
  /\ Did(<<>>, hubListeners, sessionConnections,
         [NoSent EXCEPT ![c] = <<[type |-> "connected",
                                  message |-> "Connected to Claude Code Web Terminal"]>>],
         <<>>, {})
  /\ UNCHANGED <<registryVars, sessionVars, hubListeners, sessionConnections,
                 listening, outVars, stripVars, stopped, commands, shutdown>>

\* The closing handshake begins: readyState leaves OPEN before 'close' fires.
WsClosing(c) ==
  /\ conn[c] = "open"
  /\ conn' = [conn EXCEPT ![c] = "closing"]
  /\ Quiet
  /\ UNCHANGED <<registryVars, sessionVars, hubListeners, sessionConnections,
                 listening, outVars, stripVars, stopped, commands, shutdown>>

\* Mutant: the loop stops at the first set that held the connection.
CloseMapFirst(subs, c) ==
  LET first == {j \in DOMAIN subs : c \in subs[j]
                                      /\ \A k \in DOMAIN subs : c \in subs[k] => j <= k}
  IN [k \in {j \in DOMAIN subs : j \notin first \/ subs[j] \ {c} # {}} |->
        IF k \in first THEN subs[k] \ {c} ELSE subs[k]]

\* The close handler's loop: ws leaves every set, emptied entries are deleted.
CloseMap(subs, c) ==
  [k \in {j \in DOMAIN subs : subs[j] \ {c} # {}} |-> subs[k] \ {c}]

\* ws.on('close')
WsClose(c) ==
  /\ conn[c] \in {"open", "closing"}
  /\ conn' = [conn EXCEPT ![c] = "closed"]
  /\ sessionConnections' = CloseMap(sessionConnections, c)
  /\ Did(<<>>, hubListeners, sessionConnections', NoSent, <<>>, {})
  /\ UNCHANGED <<registryVars, sessionVars, hubListeners, listening,
                 outVars, stripVars, stopped, commands, shutdown>>

\* Mutant: the catch block replies to every open connection.
WsBadMessageToAll(c) ==
  /\ conn[c] = "open"
  /\ Did(<<>>, hubListeners, sessionConnections,
         [d \in Conns |-> IF conn[d] = "open"
                          THEN <<[type |-> "error", message |-> "Invalid message format"]>>
                          ELSE <<>>],
         <<>>, {})
  /\ UNCHANGED <<registryVars, sessionVars, hubVars, outVars, stripVars, stopped, commands, shutdown>>

\* ws.on('message') with data JSON.parse rejects: the catch block replies.
WsBadMessage(c) ==
  /\ conn[c] = "open"
  /\ Did(<<>>, hubListeners, sessionConnections,
         [NoSent EXCEPT ![c] = <<[type |-> "error", message |-> "Invalid message format"]>>],
         <<>>, {})
  /\ UNCHANGED <<registryVars, sessionVars, hubVars, outVars, stripVars, stopped, commands, shutdown>>

\* The ClientMessage values a client sends; an absent content or response
\* is the empty one (both are falsy).
ClientMessages ==
  [type : {"message"}, sessionId : 0..MaxSessions, content : {<<>>, <<"h">>}, response : {""}]
    \cup [type : {"interrupt", "bogus"}, sessionId : 0..MaxSessions, content : {<<>>}, response : {""}]
    \cup [type : {"confirm"}, sessionId : 0..MaxSessions, content : {<<>>}, response : {"", "y", "n"}]

\* if (!sessionConnections.has(sessionId)) { set(sessionId, new Set()); subscribeToSession }
NeedsSubscribe(subs, sid) == sid \notin DOMAIN subs

\* sessionConnections after lines 149-154.
Registered(subs, sid, c) ==
  [k \in DOMAIN subs \cup {sid} |->
     (IF k \in DOMAIN subs THEN subs[k] ELSE {}) \cup (IF k = sid THEN {c} ELSE {})]

\* Mutant: the listener pair is attached on every command.
SubscribedAlways(lst, subs, sid) == [lst EXCEPT ![sid] = @ + 1]

\* The listener pairs after lines 149-153.
Subscribed(lst, subs, sid) ==
  IF NeedsSubscribe(subs, sid) THEN [lst EXCEPT ![sid] = @ + 1] ELSE lst

\* The switch of handleClientMessage: what the session emits, ...
SwitchEmits(m) ==
  IF m.type = "message" /\ m.content # <<>> THEN send_emits(m.sessionId, m.content)
  ELSE <<>>

\* ... what is written to the pty, ...
SwitchWrites(m) ==
  IF m.type = "message"
  THEN IF m.content # <<>> THEN send_writes(m.sessionId, m.content) ELSE <<>>
  ELSE IF m.type = "interrupt" THEN interrupt_writes(m.sessionId)
  ELSE IF m.type = "confirm"
  THEN IF m.response # "" THEN confirm_writes(m.sessionId, m.response = "y") ELSE <<>>
  ELSE <<>>

\* ... and what the default case sends back.
SwitchDirect(c, m) ==
  IF m.type \in {"message", "interrupt", "confirm"} THEN NoSent
  ELSE [NoSent EXCEPT ![c] = <<ErrorMessage(m.sessionId, "Unknown message type")>>]

\* ws.on('message') with well-formed JSON: handleClientMessage(ws, message).
WsMessage(c, m) ==
  /\ conn[c] = "open"
  /\ IF getSession(m.sessionId) = 0
     THEN /\ Did(<<>>, hubListeners, sessionConnections,
                 [NoSent EXCEPT ![c] = <<ErrorMessage(m.sessionId, "Session not found")>>],
                 <<>>, {})
          /\ UNCHANGED <<hubListeners, sessionConnections>>
     ELSE /\ hubListeners' = Subscribed(hubListeners, sessionConnections, m.sessionId)
          /\ sessionConnections' = Registered(sessionConnections, m.sessionId, c)
          /\ Did(SwitchEmits(m), hubListeners', sessionConnections',
                 SwitchDirect(c, m), SwitchWrites(m), {})
  /\ UNCHANGED <<registryVars, sessionVars, conn, listening, outVars, stripVars, stopped>>

\* --------------------------------------------------- the system as wired
Init == InitSystemVars /\ InitOutVars /\ fedAtoms = 0 /\ IdleStripVars

Next ==
  \/ \E ok \in BOOLEAN : RouteStart(ok)
  \/ \E id \in 0..MaxSessions : RouteStop(id)
  \/ Signal /\ UNCHANGED shutdown
  \/ \E s \in Sids : \E k \in DOMAIN procs[s] : \E code \in ExitCodes : ProcExit(s, k, code)
  \/ \E s \in Sids : \E k \in DOMAIN procs[s] : \E d \in SysChunks : PtyData(s, k, d)
  \/ Tick
  \/ \E s \in Sids : \E t \in timers[s] : TimerFire(s, t)
  \/ \E c \in Conns : WsConnect(c)
  \/ \E c \in Conns : WsClosing(c)
  \/ \E c \in Conns : WsClose(c)
  \/ \E c \in Conns : WsBadMessage(c)
  \/ \E c \in Conns : \E m \in ClientMessages : WsMessage(c, m) /\ UNCHANGED <<commands, shutdown>>

Spec == Init /\ [][Next]_vars

\* ------------------------------------------- the Registry and its timers
\* The routes, the signals, the children and the clock, without the hub.
\* Node's event loop runs every timer whose delay has passed, and time
\* passes: both steps are taken if they stay possible.
NextTimers ==
  \/ \E ok \in BOOLEAN : RouteStart(ok)
  \/ \E id \in 0..MaxSessions : RouteStop(id)
  \/ Signal /\ UNCHANGED shutdown
  \/ \E s \in Sids : \E k \in DOMAIN procs[s] : \E code \in ExitCodes : ProcExit(s, k, code)
  \/ Tick
  \/ \E s \in Sids : \E t \in timers[s] : TimerFire(s, t)

SpecTimers ==
  /\ Init /\ [][NextTimers]_vars
  /\ WF_vars(Tick)
  /\ \A s \in Sids : WF_vars(\E t \in timers[s] : TimerFire(s, t))

\* ------------------------------------------------ the graceful shutdown
\* The keys of the sessions Map in iteration order: a Map iterates in
\* insertion order, and createSession inserts the ids in the order it mints them.
MapOrder(S) ==
  CHOOSE q \in [1..Cardinality(S) -> S] :
    \A i, j \in 1..Cardinality(S) : i < j => q[i] < q[j]

Call(op, sid) == [op |-> op, sid |-> sid]

\* Mutant: server.close() first, stopAllSessions() after it.
ShutdownCallsCloseFirst(S) ==
  <<Call("close", 0)>> \o [i \in 1..Cardinality(S) |-> Call("stop", MapOrder(S)[i])]

\* The calls of one signal handler: stopAllSessions() (stop() on each value
\* of the Map), then server.close(callback).
ShutdownCalls(S) ==
  [i \in 1..Cardinality(S) |-> Call("stop", MapOrder(S)[i])] \o <<Call("close", 0)>>

Count(q, op) == Cardinality({i \in DOMAIN q : q[i].op = op})

\* process.exit(0) has not run.
NotExited == Count(shutdown, "exit") = 0

\* The signal handler, its calls recorded.
Shutdown ==
  /\ NotExited
  /\ Count(shutdown, "close") < MaxSignals
  /\ Signal
  /\ shutdown' = shutdown \o ShutdownCalls(sessions)

\* The callback of server.close runs once the listener is released and the
\* connections have ended: process.exit(0).
ServerClosed ==
  /\ NotExited
  /\ ~listening
  /\ \A c \in Conns : conn[c] # "open" /\ conn[c] # "closing"
  /\ shutdown' = shutdown \o <<Call("exit", 0)>>
  /\ Quiet
  /\ UNCHANGED <<registryVars, sessionVars, hubVars, outVars, stripVars, stopped, commands>>

NextShutdown ==
  \/ NotExited /\ (\E ok \in BOOLEAN : RouteStart(ok))
  \/ NotExited /\ (\E s \in Sids : \E k \in DOMAIN procs[s] : \E code \in ExitCodes :
                   ProcExit(s, k, code))
  \/ NotExited /\ (\E c \in Conns : WsConnect(c))
  \/ NotExited /\ (\E c \in Conns : WsClose(c))
  \/ Shutdown
  \/ ServerClosed

SpecShutdown == Init /\ [][NextShutdown]_vars

\* ------------------------------------- a ClaudeSession driven by any caller
\* The class is exported: its methods can be called directly, in any order.
\* One session object, created through the SessionManager.
CallCreate ==
  /\ nextId = 1
  /\ CreateSession
  /\ Quiet
  /\ UNCHANGED <<timers, sessionVars, hubVars, outVars, stripVars, stopped, commands, shutdown>>

\* session.start(), whatever the session's state.
CallStart(s, ok) ==
  /\ s < nextId
  /\ Len(procs[s]) < MaxSpawn
  /\ Start(s, ok)
  /\ Effects(StartEmits(s, ok), hubListeners, sessionConnections, NoSent, <<>>, {},
             {}, StartResult(ok))
  /\ UNCHANGED <<registryVars, hubVars, outVars, stripVars, stopped, commands, shutdown>>

\* session.stop()
CallStop(s) ==
  /\ s < nextId
  /\ isActive' = StopActive({s})
  /\ pty' = StopPty({s})
  /\ Did(<<>>, hubListeners, sessionConnections, NoSent, <<>>, StopKilled({s}))
  /\ stopped' = stopped \cup {s}
  /\ UNCHANGED <<commands, shutdown>>
  /\ UNCHANGED <<outputBuffer, procs, registryVars, hubVars, outVars, stripVars>>

\* session.send(input)
CallSend(s, input) ==
  /\ s < nextId
  /\ Did(send_emits(s, input), hubListeners, sessionConnections, NoSent,
         send_writes(s, input), {})
  /\ UNCHANGED <<registryVars, sessionVars, hubVars, outVars, stripVars, stopped, commands, shutdown>>

\* session.resize(cols, rows)
CallResize(s) ==
  /\ s < nextId
  /\ Effects(<<>>, hubListeners, sessionConnections, NoSent, <<>>, {},
             resize_calls(s), "none")
  /\ UNCHANGED <<registryVars, sessionVars, hubVars, outVars, stripVars, stopped, commands, shutdown>>

InitApi == Init

NextApi ==
  \/ CallCreate
  \/ \E s \in Sids : \E ok \in BOOLEAN : CallStart(s, ok)
  \/ \E s \in Sids : CallStop(s)
  \/ \E s \in Sids : CallSend(s, <<"h">>)
  \/ \E s \in Sids : CallResize(s)
  \/ \E s \in Sids : \E k \in DOMAIN procs[s] : \E code \in ExitCodes : ProcExit(s, k, code)
  \/ Tick
  \/ \E s \in Sids : \E t \in timers[s] : TimerFire(s, t)

SpecApi == InitApi /\ [][NextApi]_vars

\* ------------------------------------- the hub, with its commands counted
\* ws.on('message') as in WsMessage, the accepted command being counted.
HubCommand(c, m) ==
  /\ WsMessage(c, m)
  /\ commands' = IF getSession(m.sessionId) = 0 THEN commands
                 ELSE [commands EXCEPT ![c][m.sessionId] = Min(MaxCommands, @ + 1)]
  /\ UNCHANGED shutdown

InitHub == Init

NextHub ==
  \/ \E ok \in BOOLEAN : RouteStart(ok)
  \/ \E s \in Sids : \E k \in DOMAIN procs[s] : \E code \in ExitCodes : ProcExit(s, k, code)
  \/ \E s \in Sids : \E k \in DOMAIN procs[s] : \E d \in SysChunks : PtyData(s, k, d)
  \/ \E c \in Conns : WsConnect(c)
  \/ \E c \in Conns : WsClosing(c)
  \/ \E c \in Conns : WsClose(c)
  \/ \E c \in Conns : \E m \in ClientMessages : HubCommand(c, m)

SpecHub == InitHub /\ [][NextHub]_vars

\* --------------------------------------- one session's output pipeline
\* The pieces the child's output is made of: plain text, white space, the
\* terminator, a shell prompt, the two halves of a permission affordance and
\* the two halves of the dim escape sequence.
OutAtoms ==
  {<<"a">>, <<" ">>, <<NL>>, <<"$", " ">>, <<"[", "y", "/">>, <<"n", "]">>,
   <<ESC>>, <<"[", "2", "m">>}

\* A chunk is one or two pieces.
OutChunks == OutAtoms \cup {a \o b : a \in OutAtoms, b \in OutAtoms}

OutSid == CHOOSE s \in Sids : \A t \in Sids : s <= t

\* The session has been created and started; its child is running.
InitOut ==
  /\ nextId = 2
  /\ sessions = {OutSid}
  /\ timers = [s \in Sids |-> {}]
  /\ isActive = [s \in Sids |-> s = OutSid]
  /\ pty = [s \in Sids |-> IF s = OutSid THEN 1 ELSE 0]
  /\ outputBuffer = [s \in Sids |-> <<>>]
  /\ procs = [s \in Sids |-> IF s = OutSid THEN <<NewProc>> ELSE <<>>]
  /\ hubListeners = [s \in Sids |-> 0]
  /\ sessionConnections = EmptyMap
  /\ conn = [c \in Conns |-> "none"]
  /\ listening = TRUE
  /\ emitted = <<>>
  /\ sent = NoSent
  /\ written = <<>>
  /\ killed = {}
  /\ resized = {}
  /\ result = "none"
  /\ stopped = {}
  /\ commands = [c \in Conns |-> [s \in Sids |-> 0]]
  /\ shutdown = <<>>
  /\ fedAtoms = 0
  /\ InitOutVars
  /\ IdleStripVars

\* The 'message' events among the emitted ones.
RECURSIVE MessagesOf(_)
MessagesOf(emits) ==
  IF Len(emits) = 0 THEN <<>>
  ELSE (IF Head(emits).ev = "message" THEN <<Head(emits).msg>> ELSE <<>>)
         \o MessagesOf(Tail(emits))

\* The child writes a chunk of n pieces: pty.onData -> handleOutput.
FeedData(data, n) ==
  /\ fedAtoms + n <= MaxFedAtoms
  /\ fedAtoms' = fedAtoms + n
  /\ HandleOutput(OutSid, 1, data)
  /\ fed' = fed \o data
  /\ lineLog' = lineLog \o MessagesOf(emitted')

NextOut ==
  \/ \E a \in OutAtoms : FeedData(a, 1)
  \/ \E a \in OutAtoms : \E b \in OutAtoms : FeedData(a \o b, 2)

SpecOut == InitOut /\ [][NextOut]_vars

\* ------------------------------------------- the child writes whole lines
\* What a line is made of: a y/n affordance, a shell command, an exit
\* report, a thinking indicator, a plain word, the dim escape sequence.
LinePhrases ==
  {<<"[", "y", "/", "n", "]">>,
   <<"$", " ", "l", "s">>,
   <<"E", "x", "i", "t", " ", "c", "o", "d", "e">>,
   <<"T", "h", "i", "n", "k", "i", "n", "g", ".", ".", ".">>,
   <<"o", "k">>,
   <<ESC, "[", "2", "m">>}

\* A line is empty, white space, one phrase, or two phrases a space apart.
OutLines ==
  {<<>>, <<" ">>} \cup LinePhrases
    \cup {a \o <<" ">> \o b : a \in LinePhrases, b \in LinePhrases}

\* The child writes one terminated line, counted as two pieces.
FeedLine(line) == FeedData(line \o <<NL>>, MaxFedAtoms \div 2)

NextLines == \E line \in OutLines : FeedLine(line)

SpecLines == InitOut /\ [][NextLines]_vars

\* ------------------------------------- the child writes short lines
\* Short lines: empty, white space, a word, a shell command, a y/n
\* affordance, the dim escape sequence alone.
ShortLines ==
  {<<>>, <<" ">>, <<"a">>, <<"$", " ", "a">>, <<"[", "y", "/", "n", "]">>,
   <<ESC, "[", "2", "m">>}

\* The child writes one terminated short line, counted as one piece.
FeedShort(line) == FeedData(line \o <<NL>>, 1)

NextShort == \E line \in ShortLines : FeedShort(line)

SpecShort == InitOut /\ [][NextShort]_vars

\* --------------------------------------------- stripAnsi applied repeatedly
StripAlphabet == {ESC, "[", "0", "m", "a"}

InitStripVars ==
  /\ stripIn \in TextsUpTo(StripAlphabet, MaxStripLen)
  /\ stripOnce = <<>>
  /\ stripTwice = <<>>
  /\ stripPasses = 0

StripFirst ==
  /\ stripPasses = 0
  /\ stripOnce' = stripAnsi(stripIn)
  /\ stripPasses' = 1
  /\ UNCHANGED <<stripIn, stripTwice>>
  /\ UNCHANGED <<registryVars, sessionVars, hubVars, effectVars, outVars, stopped, commands, shutdown>>

StripSecond ==
  /\ stripPasses = 1
  /\ stripTwice' = stripAnsi(stripOnce)
  /\ stripPasses' = 2
  /\ UNCHANGED <<stripIn, stripOnce>>
  /\ UNCHANGED <<registryVars, sessionVars, hubVars, effectVars, outVars, stopped, commands, shutdown>>

InitStrip == InitStripVars /\ InitSystemVars /\ InitOutVars /\ fedAtoms = 0

NextStrip == StripFirst \/ StripSecond

SpecStrip == InitStrip /\ [][NextStrip]_vars

\* ------------------------------------------------------------------ claims
\* C10: stripAnsi is idempotent: once both passes have run on a text, the
\* second pass has changed nothing, stripAnsi(stripAnsi(x)) = stripAnsi(x).
C10_StripIdempotent == stripPasses = 2 => stripTwice = stripOnce

\* The last handler emitted the sessionStart message of session s.
StartedNow(s) ==
  \E i \in DOMAIN emitted : emitted[i].sid = s /\ emitted[i].msg.type = "sessionStart"

\* Session s has been active at some time: a spawn succeeded.
HasBeenActive(s) == procs[s] # <<>>

\* C1: for any sequence of start(), stop() and process-exit events a Session
\* becomes active at most once (a start() that succeeds finds a Session that
\* has never been active), and a Session that is non-active after having been
\* active never becomes active again.
C1_ActiveAtMostOnce ==
  [][\A s \in Sids :
       /\ (HasBeenActive(s) /\ ~isActive[s]) => ~isActive'[s]
       /\ (isActive'[s] /\ StartedNow(s)') => ~HasBeenActive(s)]_vars

Running(s) == {k \in DOMAIN procs[s] : procs[s][k] = "running"}

\* C2: a Session never has two spawned, not-yet-exited child processes, and a
\* Session one of whose processes has exited never gets a new process.
C2_OneLiveProcess ==
  /\ [](\A s \in Sids : Cardinality(Running(s)) <= 1)
  /\ [][\A s \in Sids :
          (\E k \in DOMAIN procs[s] : procs[s][k] = "exited")
            => Len(procs'[s]) = Len(procs[s])]_vars

\* C3: the hub attaches its forwarding listeners to a Session's emitter at
\* most once, however connections subscribe, close and subscribe again.
C3_WiredAtMostOnce == \A s \in Sids : hubListeners[s] <= 1

\* The events session s emitted in the last handler that the hub forwards.
RECURSIVE ForwardedOf(_, _)
ForwardedOf(emits, s) ==
  IF Len(emits) = 0 THEN <<>>
  ELSE (IF Head(emits).sid = s /\ Head(emits).ev \in {"message", "rawOutput"}
        THEN <<Head(emits).msg>> ELSE <<>>) \o ForwardedOf(Tail(emits), s)

Subscribers(s) ==
  IF s \in DOMAIN sessionConnections THEN sessionConnections[s] ELSE {}

Gets(c, msg) == \E j \in DOMAIN sent[c] : sent[c][j] = msg

\* C4: every event published for a session reaches each open connection
\* subscribed to it (A and B alike), and a connection whose close handler has
\* run is sent nothing.
C4_FanOut ==
  \A s \in Sids : \A i \in DOMAIN ForwardedOf(emitted, s) :
    /\ \A a \in Subscribers(s) :
         conn[a] = "open" => Gets(a, ForwardedOf(emitted, s)[i])
    /\ \A a \in Conns : conn[a] = "closed" => sent[a] = <<>>

\* C4 witness: two open connections subscribed to one session have both just
\* been sent an event of it.
C4_Witness ==
  \E s \in Sids : \E a \in Conns : \E b \in Conns :
    /\ a # b /\ {a, b} \subseteq Subscribers(s)
    /\ conn[a] = "open" /\ conn[b] = "open"
    /\ ForwardedOf(emitted, s) # <<>>
    /\ Gets(a, ForwardedOf(emitted, s)[1]) /\ Gets(b, ForwardedOf(emitted, s)[1])

\* A process of session s has exited.
Exited(s) == \E k \in DOMAIN procs[s] : procs[s][k] = "exited"

\* The grace window has elapsed since an exit of session s.
GraceElapsed(s) == \E t \in timers[s] : t.elapsed >= GraceMs

\* C5 as stated: a created Session leaves the registry (get(id) starts to
\* fail) only when its process has exited and the grace window has elapsed
\* since that exit.
C5_EvictedOnlyAfterGrace ==
  [][\A s \in Sids :
       (getSession(s) # 0 /\ getSession(s)' = 0) => (Exited(s) /\ GraceElapsed(s))]_vars

\* C5 amended: a created Session leaves the registry only when its process
\* has exited and the grace window has elapsed since that exit, or when
\* stopAll() clears the registry.
C5_EvictedAfterGraceOrStopAll ==
  [][\A s \in Sids :
       (getSession(s) # 0 /\ getSession(s)' = 0)
         => ((Exited(s) /\ GraceElapsed(s)) \/ Signal)]_vars

\* C5 witness: with stopAll() never called, a created Session whose process
\* exited is no longer found.
C5_Witness ==
  \E s \in Sids : s < nextId /\ getSession(s) = 0 /\ Exited(s) /\ listening

\* Session s is active as the claims mean it: started, not stopped, its
\* process still running.
IsLive(s) == procs[s] = <<"running">> /\ s \notin stopped

NotActiveError(s) == Emit(s, "message", ErrorMessage(s, "Session is not active"))

\* C6: send(input) on a Session that is not active emits exactly one Error
\* event and writes nothing; on an active Session it writes exactly input and
\* a line terminator to the Session's process and emits no Error.
C6_SendGuarded ==
  [][\A c \in Conns : \A m \in ClientMessages :
       (m.type = "message" /\ m.content # <<>> /\ getSession(m.sessionId) # 0
          /\ WsMessage(c, m))
         => IF IsLive(m.sessionId)
            THEN /\ written' = <<[sid |-> m.sessionId, proc |-> 1,
                                  data |-> m.content \o <<NL>>]>>
                 /\ emitted' = <<>>
            ELSE /\ written' = <<>>
                 /\ emitted' = <<NotActiveError(m.sessionId)>>]_vars

\* C6 witness: a send on a Session whose process exited on its own has just
\* produced the Error event.
C6_Witness ==
  \E s \in Sids :
    /\ procs[s] = <<"exited">> /\ s \notin stopped
    /\ emitted = <<NotActiveError(s)>> /\ written = <<>>

SessionEndsIn(emits, s) ==
  {i \in DOMAIN emits : emits[i].sid = s /\ emits[i].ev = "message"
                          /\ emits[i].msg.type = "sessionEnd"}

\* C7: every termination of a Session's child process emits exactly one
\* SessionEnded event, carrying the exit code of that termination, nothing
\* else emits one, and from the termination on the Session is not active.
C7_OneSessionEnded ==
  /\ [][\A s \in Sids : \A k \in DOMAIN procs[s] : \A code \in ExitCodes :
          ProcExit(s, k, code)
            => /\ Cardinality(SessionEndsIn(emitted', s)) = 1
               /\ \A i \in SessionEndsIn(emitted', s) : emitted'[i].msg.exitCode = code
               /\ ~isActive'[s]]_vars
  /\ [][\A s \in Sids :
          procs'[s] = procs[s] => SessionEndsIn(emitted', s) = {}]_vars
  /\ [](\A s \in Sids : Exited(s) => ~isActive[s])

\* C7 witness: a process that was stopped has exited with code 1 and the
\* SessionEnded event carrying 1 has just been emitted.
C7_Witness ==
  \E s \in Sids :
    /\ procs[s] = <<"exited">> /\ s \in stopped
    /\ \E i \in SessionEndsIn(emitted, s) : emitted[i].msg.exitCode = 1

\* Session t was created and never became active.
Pending(t) == t < nextId /\ procs[t] = <<>>

\* C8: once a Session's process has exited with code c, getState() carries
\* the exit code c and an activity state that tells the exited Session from a
\* pending one.
C8_StateReportsExit ==
  \A s \in Sids :
    /\ \A i \in SessionEndsIn(emitted, s) :
         /\ "exitCode" \in DOMAIN getState(s)
         /\ getState(s).exitCode = emitted[i].msg.exitCode
    /\ Exited(s) =>
         \A t \in Sids : Pending(t) => getState(s).isActive # getState(t).isActive

\* The concatenation of the contents of the events, in order.
RECURSIVE ConcatContents(_)
ConcatContents(msgs) ==
  IF Len(msgs) = 0 THEN <<>>
  ELSE Head(msgs).content \o ConcatContents(Tail(msgs))

\* C9 as stated: the contents of the classified-line events emitted so far,
\* concatenated in emission order, are the ANSI-stripped concatenation of
\* the chunks fed so far.
C9_ContentsEqualStripped == ConcatContents(lineLog) = stripAnsi(fed)

\* The terminated lines of a text, and those of them that are not blank.
CompleteLines(text) == SubSeq(Split(text), 1, Len(Split(text)) - 1)
IsNonBlank(line) == Trim(line) # <<>>
NonBlankLines(text) == SelectSeq(CompleteLines(text), IsNonBlank)

\* C9 amended: however the chunk boundaries fall, the classified-line events
\* emitted so far are, in order, the events of the complete lines of the
\* concatenated input, one for each line that is not blank, and each event
\* classified as plain text or thinking has its ANSI-stripped line as
\* content: no line is lost or cut where a chunk boundary splits it.  (Line
\* terminators, blank lines and an unterminated tail are in no event.)
C9_LinesPreserved ==
  /\ lineLog = outputToMessages(OutSid, ParseLines(CompleteLines(fed)))
  /\ Len(lineLog) = Len(NonBlankLines(fed))
  /\ \A i \in DOMAIN lineLog :
       lineLog[i].type \in {"output", "thinking"}
         => lineLog[i].content = stripAnsi(NonBlankLines(fed)[i])

\* C9 witness: the line ESC [2m a, which only arrives cut into several
\* chunks, has been emitted as a thinking event with content a.
C9_Witness ==
  \E i \in DOMAIN lineLog :
    lineLog[i].type = "thinking" /\ lineLog[i].content = <<"a">>

\* The line matches one of the permission patterns / one of the tool-start
\* patterns (both are tried on the ANSI-stripped line).
MatchesPermission(line) ==
  \E n \in DOMAIN PERMISSION_PATTERNS : Match(PERMISSION_PATTERNS[n], stripAnsi(line)).ok
MatchesToolStart(line) ==
  \E n \in DOMAIN TOOL_START_PATTERNS : Match(TOOL_START_PATTERNS[n].re, stripAnsi(line)).ok

\* C11: every complete line of the output that matches both a permission
\* pattern and a tool-start pattern has been emitted as a permission prompt,
\* never as a tool start.
C11_PermissionWins ==
  /\ Len(lineLog) = Len(NonBlankLines(fed))
  /\ \A i \in DOMAIN lineLog :
       (MatchesPermission(NonBlankLines(fed)[i]) /\ MatchesToolStart(NonBlankLines(fed)[i]))
         => lineLog[i].type = "permission"

\* C11 witness: the line "$ [y/n]", a shell command for the Bash pattern and
\* a y/n affordance at once, has been emitted as a permission prompt.
C11_Witness ==
  \E i \in DOMAIN lineLog :
    /\ lineLog[i].type = "permission"
    /\ lineLog[i].content = <<"$", " ", "[", "y", "/", "n", "]">>
    /\ MatchesToolStart(lineLog[i].content)

\* The last handler was a stop() that signalled a process of session s.
JustSignalled(s) == \E k \in 1..MaxSpawn : <<s, k>> \in killed

\* C12: stop() on a Session that never had a process, and stop() called again
\* right after a stop(), change no state of the Session or the Registry,
\* signal no process and emit nothing.
C12_StopIdempotent ==
  [][\A s \in Sids :
       (CallStop(s) /\ (procs[s] = <<>> \/ JustSignalled(s)))
         => /\ UNCHANGED <<sessionVars, registryVars>>
            /\ killed' = {}
            /\ emitted' = <<>>]_vars

\* C12 witness: a Session whose process is still running has been stopped
\* and the last handler, a second stop(), signalled nothing.
C12_Witness ==
  \E s \in Sids :
    /\ s \in stopped /\ procs[s] = <<"running">> /\ pty[s] = 0
    /\ killed = {} /\ emitted = <<>> /\ written = <<>>

\* C13: stop() on an active Session signals the process the Session holds,
\* which is running, and the Session is non-active when stop() returns, the
\* process not having exited; a stopped Session stays non-active in every
\* step that spawns no new process, whether its process exits or not.
C13_StopAtOnce ==
  /\ [][\A s \in Sids :
          (CallStop(s) /\ isActive[s])
            => /\ pty[s] \in DOMAIN procs[s] /\ procs[s][pty[s]] = "running"
               /\ killed' = {<<s, pty[s]>>}
               /\ ~isActive'[s]
               /\ procs' = procs]_vars
  /\ [][\A s \in Sids :
          (s \in stopped /\ ~isActive[s] /\ Len(procs'[s]) = Len(procs[s]))
            => ~isActive'[s]]_vars

\* C13 witness: a stop() has just signalled the running process of a Session,
\* the process has not exited, and the Session is not active.
C13_Witness ==
  \E s \in Sids :
    /\ s \in stopped /\ procs[s] = <<"running">>
    /\ killed = {<<s, 1>>} /\ ~isActive[s]

NotFoundError(id) == ErrorMessage(id, "Session not found")

\* C14: a client command whose sessionId is not a key of the Registry gets
\* exactly one 'Session not found' error, sent to the originating connection
\* and to no other; no subscription entry is created, no listener attached,
\* no Session changed, written to or signalled, and no event emitted.
C14_NotFound ==
  [][\A c \in Conns : \A m \in ClientMessages :
       (m.sessionId \notin sessions /\ WsMessage(c, m))
         => /\ sent' = [NoSent EXCEPT ![c] = <<NotFoundError(m.sessionId)>>]
            /\ UNCHANGED <<sessionConnections, hubListeners, sessionVars, registryVars>>
            /\ emitted' = <<>> /\ written' = <<>> /\ killed' = {}]_vars

\* C14 witness: a command naming a Session that was created and is no longer
\* in the Registry has just been answered with the error, and the Session has
\* no subscription entry and no listener.
C14_Witness ==
  \E c \in Conns : \E s \in Sids :
    /\ s < nextId /\ s \notin sessions
    /\ sent[c] = <<NotFoundError(s)>>
    /\ \A d \in Conns \ {c} : sent[d] = <<>>
    /\ s \notin DOMAIN sessionConnections /\ hubListeners[s] = 0

\* Each forwarded event in order, n times in a row.
RECURSIVE RepeatEach(_, _)
RepeatEach(msgs, n) ==
  IF Len(msgs) = 0 THEN <<>>
  ELSE Repeat(Head(msgs), n) \o RepeatEach(Tail(msgs), n)

\* C15: a command of a connection for a session it has already subscribed to
\* leaves the subscriber sets and the listeners attached to the Session as
\* they were, and the events of a session with one listener pair reach each
\* open subscriber once, however many commands the subscriber has sent.
C15_SubscribeIdempotent ==
  /\ [][\A c \in Conns : \A m \in ClientMessages :
          (m.sessionId \in Sids /\ commands[c][m.sessionId] >= 1
             /\ c \in Subscribers(m.sessionId) /\ HubCommand(c, m))
            => UNCHANGED <<sessionConnections, hubListeners>>]_vars
  /\ [](\A s \in Sids : \A c \in Subscribers(s) :
          (conn[c] = "open" /\ hubListeners[s] = 1 /\ ForwardedOf(emitted, s) # <<>>)
            => sent[c] = ForwardedOf(emitted, s))

\* C15 witness: a connection has sent two commands for a session; it is the
\* session's only subscriber, one listener pair is attached, and the event
\* its second command made the session emit has reached it once.
C15_Witness ==
  \E c \in Conns : \E s \in Sids :
    /\ commands[c][s] = 2 /\ conn[c] = "open"
    /\ s \in DOMAIN sessionConnections /\ sessionConnections[s] = {c}
    /\ hubListeners[s] = 1
    /\ emitted = <<NotActiveError(s)>> /\ sent[c] = <<NotActiveError(s).msg>>

\* The sessions whose subscriber set holds connection c.
SessionsOf(c) == {s \in DOMAIN sessionConnections : c \in sessionConnections[s]}

C17_CloseUnsubscribesOnly ==
  [][\A c \in Conns :
       WsClose(c)
         => /\ \A s \in Sids : Subscribers(s)' = Subscribers(s) \ {c}
            /\ UNCHANGED <<sessionVars, registryVars>>
            /\ emitted' = <<>> /\ written' = <<>> /\ killed' = {}]_vars

\* C17 witness: the only connection there has been is closed; a session it
\* had subscribed to is left without subscribers and is still active, its
\* process running.
C17_Witness ==
  \E c \in Conns : \E s \in Sids :
    /\ conn[c] = "closed" /\ \A d \in Conns \ {c} : conn[d] = "none"
    /\ hubListeners[s] = 1 /\ s \notin DOMAIN sessionConnections
    /\ isActive[s] /\ procs[s] = <<"running">> /\ s \in sessions

\* C18: what an open subscriber of a session is sent while a handler runs is
\* the events the session emitted in it, in emission order (each as many
\* times in a row as listener pairs are attached).
C18_Fifo ==
  \A s \in Sids : \A c \in Subscribers(s) :
    (conn[c] = "open" /\ ForwardedOf(emitted, s) # <<>>)
      => /\ hubListeners[s] >= 1
         /\ sent[c] = RepeatEach(ForwardedOf(emitted, s), hubListeners[s])

\* C18 witness: a chunk made a session emit a line event and then a raw
\* event, and an open subscriber was sent the two in that order.
C18_Witness ==
  \E s \in Sids : \E c \in Subscribers(s) :
    /\ conn[c] = "open"
    /\ Len(ForwardedOf(emitted, s)) = 2
    /\ ForwardedOf(emitted, s)[1] # ForwardedOf(emitted, s)[2]
    /\ sent[c] = ForwardedOf(emitted, s)

\* The messages a handler sends to one connection itself, not by broadcast.
IsDirect(msg) ==
  \/ msg.type = "connected"
  \/ msg.type = "error" /\ msg.message \in {"Session not found", "Unknown message type",
                                           "Invalid message format"}

\* C19: a connection that is not open is sent nothing, and what a connection
\* is sent by broadcast while a handler runs are events emitted in that very
\* handler: an event skipped earlier is not delivered later.
C19_SkipNonOpen ==
  \A c \in Conns :
    /\ conn[c] # "open" => sent[c] = <<>>
    /\ \A i \in DOMAIN sent[c] :
         IsDirect(sent[c][i]) \/ \E j \in DOMAIN emitted : emitted[j].msg = sent[c][i]

\* C19 witness: a session has just emitted an event while a subscriber of it
\* was closing, and the subscriber was sent nothing.
C19_Witness ==
  \E s \in Sids : \E c \in Subscribers(s) :
    conn[c] = "closing" /\ ForwardedOf(emitted, s) # <<>> /\ sent[c] = <<>>

SessionStarted(s) == Emit(s, "message", [type |-> "sessionStart", sessionId |-> s])

\* The positions in emits of the output and SessionEnded events of session s.
OutputOrEnd(emits, s) ==
  {i \in DOMAIN emits :
     /\ emits[i].sid = s /\ emits[i].ev \in {"message", "rawOutput"}
     /\ emits[i].msg.type \in {"output", "thinking", "toolUse", "permission", "sessionEnd"}}

\* C20: when start() has spawned the process the Session is active and the
\* handler has emitted exactly one event, the SessionStarted; it starts a
\* Session that has had no process, and an output or SessionEnded event of a
\* Session is emitted only by a later handler, the Session having a process.
C20_StartedFirst ==
  /\ [][RouteStart(TRUE)
          => /\ isActive'[nextId]
             /\ emitted' = <<SessionStarted(nextId)>>
             /\ procs[nextId] = <<>> /\ procs'[nextId] = <<"running">>]_vars
  /\ [](\A s \in Sids :
          OutputOrEnd(emitted, s) # {}
            => /\ procs[s] # <<>>
               /\ \A i \in DOMAIN emitted : emitted[i] # SessionStarted(s))

\* C20 witness: a start() has just returned: the Session is active, its
\* process is running and the SessionStarted is the one event emitted.
C20_Witness ==
  \E s \in Sids :
    isActive[s] /\ procs[s] = <<"running">> /\ emitted = <<SessionStarted(s)>>

StartFailed(s) == Emit(s, "message", ErrorMessage(s, "Failed to start Claude session"))

\* C21: when the spawn fails, start() emits exactly one event, the Error, and
\* no SessionStarted; the failure reaches the caller (the route answers 500);
\* the Session is left non-active, without process handle or process, and
\* still in the Registry.
C21_StartFailure ==
  [][RouteStart(FALSE)
       => /\ emitted' = <<StartFailed(nextId)>>
          /\ result' = "500"
          /\ ~isActive'[nextId] /\ pty'[nextId] = 0 /\ procs'[nextId] = <<>>
          /\ nextId \in sessions']_vars

\* C21 witness: a start() has just failed: the Error is the one event, the
\* route answered 500, and the Session is pending in the Registry.
C21_Witness ==
  \E s \in Sids :
    /\ emitted = <<StartFailed(s)>> /\ result = "500"
    /\ s \in sessions /\ ~isActive[s] /\ pty[s] = 0 /\ procs[s] = <<>>

\* What interrupt() or confirm() is to write for the command m.
ControlBytes(m) ==
  IF m.type = "interrupt" THEN <<ESC>>
  ELSE IF m.response = "y" THEN <<"y", NL>> ELSE <<"n", NL>>

\* C22: interrupt() and confirm() emit nothing; on a Session that is not
\* active they write nothing, on an active one interrupt() writes exactly
\* the escape byte and confirm() exactly y or n and a line terminator, to
\* the Session's process, whatever the output has been.
C22_ControlWrites ==
  [][\A c \in Conns : \A m \in ClientMessages :
       (/\ m.type \in {"interrupt", "confirm"}
        /\ m.type = "confirm" => m.response # ""
        /\ getSession(m.sessionId) # 0
        /\ WsMessage(c, m))
         => /\ emitted' = <<>>
            /\ written' = IF IsLive(m.sessionId)
                          THEN <<[sid |-> m.sessionId, proc |-> 1, data |-> ControlBytes(m)]>>
                          ELSE <<>>]_vars

\* C22 witness: a confirm(false) has just written n and a line terminator to
\* the running process of an active Session.
C22_Witness ==
  \E s \in Sids :
    /\ isActive[s] /\ procs[s] = <<"running">>
    /\ written = <<[sid |-> s, proc |-> 1, data |-> <<"n", NL>>]>> /\ emitted = <<>>

\* C23: resize() on a Session that is not active performs no operation on
\* the pseudo-terminal.
C23_ResizeGuarded ==
  [][\A s \in Sids : (CallResize(s) /\ ~isActive[s]) => resized' = {}]_vars

\* C24: a Registry entry whose Session's process has exited is eventually
\* removed, and an identifier that has left the Registry never enters it
\* again.
C24_EventuallyEvicted ==
  /\ \A s \in Sids : (s \in sessions /\ Exited(s)) ~> (s \notin sessions)
  /\ [][\A s \in Sids : (s < nextId /\ s \notin sessions) => s \notin sessions']_vars

\* C24 witness: with no shutdown signal received, a Session whose process
\* exited has been removed by its timer, the grace window over.
C24_Witness ==
  \E s \in Sids :
    /\ listening /\ s < nextId /\ s \notin sessions /\ Exited(s)
    /\ timers[s] = {}

\* C25: a signal handler calls stop() on every Session the Registry tracks
\* before it calls server.close, and process.exit runs only after both.
C25_StopBeforeClose ==
  [][/\ Shutdown =>
          LET calls == SubSeq(shutdown', Len(shutdown) + 1, Len(shutdown'))
          IN /\ Count(calls, "close") = 1 /\ Count(calls, "exit") = 0
             /\ \A s \in sessions :
                  /\ \E i, j \in DOMAIN calls :
                       i < j /\ calls[i] = Call("stop", s) /\ calls[j].op = "close"
                  /\ ~isActive'[s] /\ pty'[s] = 0
                  /\ pty[s] # 0 => <<s, pty[s]>> \in killed'
             /\ ~listening'
     /\ Count(shutdown', "exit") > Count(shutdown, "exit") =>
          /\ Count(shutdown, "close") >= 1
          /\ shutdown' = shutdown \o <<Call("exit", 0)>>]_vars

\* C25 witness: the process has exited after a signal that found two Sessions
\* tracked: both were stopped, then the listener was released.
C25_Witness ==
  /\ Len(shutdown) = 4
  /\ shutdown[1].op = "stop" /\ shutdown[2].op = "stop"
  /\ shutdown[3].op = "close" /\ shutdown[4].op = "exit"

HasSessionId(msg) == "sessionId" \in DOMAIN msg

InvalidFormatError == [type |-> "error", message |-> "Invalid message format"]

\* C27: inbound data that cannot be parsed gets exactly one 'Invalid message
\* format' error, sent to the connection it came from; no other connection
\* is sent anything, and no subscription, listener, Session, Registry entry
\* or child process changes.
C27_MalformedReply ==
  [][/\ \A c \in Conns : WsBadMessage(c) => sent'[c] = <<InvalidFormatError>>
     /\ \A c \in Conns :
          (\E j \in DOMAIN sent'[c] : sent'[c][j] = InvalidFormatError) =>
             /\ conn[c] = "open"
             /\ sent' = [NoSent EXCEPT ![c] = <<InvalidFormatError>>]
             /\ emitted' = <<>> /\ written' = <<>> /\ killed' = {} /\ resized' = {}
             /\ UNCHANGED <<sessionConnections, hubListeners, conn, listening>>
             /\ UNCHANGED <<sessionVars, registryVars>>]_vars

\* C27 witness: with two connections open, one has just been sent the
\* 'Invalid message format' error and the other nothing, while a Session is
\* active and subscribed to.
C27_Witness ==
  \E c, d \in Conns : \E s \in Sids :
    /\ c # d /\ conn[c] = "open" /\ conn[d] = "open"
    /\ sent[c] = <<InvalidFormatError>> /\ sent[d] = <<>>
    /\ isActive[s] /\ d \in Subscribers(s)

\* C28: a 'message' command with non-empty content for a session that is in
\* the Registry and not active delivers exactly one 'Session is not active'
\* Error to the connection that sent the command, whatever subscriptions
\* and disconnections the session has seen before.
C28_OneNotActiveError ==
  [][\A c \in Conns : \A m \in ClientMessages :
       (m.type = "message" /\ m.content # <<>> /\ getSession(m.sessionId) # 0
          /\ ~IsLive(m.sessionId) /\ WsMessage(c, m))
         => sent'[c] = <<NotActiveError(m.sessionId).msg>>]_vars

\* The step leaves every session other than s as it was.
OthersUntouched(s) ==
  \A t \in Sids \ {s} :
    /\ isActive'[t] = isActive[t]
    /\ pty'[t] = pty[t]
    /\ procs'[t] = procs[t]
    /\ outputBuffer'[t] = outputBuffer[t]
    /\ Subscribers(t)' = Subscribers(t)

\* C29: a send, interrupt or confirm command for session S, a stop of S, a
\* failed start of S and an exit of S's process leave the activity state, the
\* process handle, the reassembly buffer and the subscriber set of every
\* other session unchanged; resize on S reaches the handle of S only.
C29_OtherSessionsUntouched ==
  /\ [][/\ \A c \in Conns : \A m \in ClientMessages :
             (getSession(m.sessionId) # 0 /\ WsMessage(c, m))
               => OthersUntouched(m.sessionId)
        /\ \A id \in Sids : RouteStop(id) => OthersUntouched(id)
        /\ RouteStart(FALSE) => OthersUntouched(nextId)
        /\ \A s \in Sids : \A k \in DOMAIN procs[s] : \A code \in ExitCodes :
             ProcExit(s, k, code) => OthersUntouched(s)]_vars
  /\ [](\A s \in Sids : \A call \in resize_calls(s) : call = <<s, pty[s]>>)

\* C29 witness: one Session has just been stopped while another is active,
\* holds its process and has a subscriber.
C29_Witness ==
  \E s, t \in Sids :
    /\ s # t /\ killed = {<<s, 1>>} /\ pty[s] = 0 /\ ~isActive[s]
    /\ isActive[t] /\ pty[t] = 1 /\ Subscribers(t) # {}

\* The rules in their fixed order, each tried on the line alone.
MatchesToolEnd(line) ==
  \E n \in DOMAIN TOOL_END_PATTERNS : Match(TOOL_END_PATTERNS[n].re, stripAnsi(line)).ok
MatchesThinking(line) ==
  \/ \E n \in DOMAIN THINKING_PATTERNS : Match(THINKING_PATTERNS[n], stripAnsi(line)).ok
  \/ Includes(line, <<ESC, "[", "2", "m">>)
  \/ Includes(line, <<ESC, "[", "3", "m">>)

FirstRule(line) ==
  IF MatchesPermission(line) THEN "permission"
  ELSE IF MatchesToolStart(line) THEN "tool start"
  ELSE IF MatchesToolEnd(line) THEN "tool end"
  ELSE IF MatchesThinking(line) THEN "thinking"
  ELSE "text"

\* The category of an emitted classified-line message.
CategoryOf(msg) ==
  IF msg.type = "permission" THEN "permission"
  ELSE IF msg.type = "toolUse" /\ msg.status = "start" THEN "tool start"
  ELSE IF msg.type = "toolUse" /\ msg.status = "end" THEN "tool end"
  ELSE IF msg.type = "thinking" THEN "thinking"
  ELSE IF msg.type = "output" THEN "text"
  ELSE "none"

\* C30: every line that is not blank yields exactly one event, and the
\* event of the i-th such line has the category of the first rule, in the
\* order permission, tool start, tool end, thinking, text, that matches that
\* line taken alone, whatever lines came before it.
C30_TotalOrdered ==
  /\ Len(lineLog) = Len(NonBlankLines(fed))
  /\ \A i \in DOMAIN lineLog :
       CategoryOf(lineLog[i]) = FirstRule(NonBlankLines(fed)[i])

\* C30 witness: two lines were classified, the first as thinking and the
\* second, which matches a tool-start and a tool-end pattern, as a tool start.
C30_Witness ==
  /\ Len(lineLog) = 2 /\ Len(CompleteLines(fed)) = 2
  /\ CategoryOf(lineLog[1]) = "thinking"
  /\ CategoryOf(lineLog[2]) = "tool start"
  /\ MatchesToolEnd(NonBlankLines(fed)[2])

\* The line is empty or made of white space only.
IsBlank(line) == \A i \in DOMAIN line : line[i] \in {" ", "\t", "\r", NL}

\* C31: an empty or whitespace-only line of the child's output produces no
\* classified event: writing one leaves the events emitted so far as they
\* are and emits none, and the events emitted are, in order, those of the
\* lines that are not blank, the ones before and after a blank line included.
C31_BlankLineSkipped ==
  /\ [][\A line \in ShortLines :
          (IsBlank(line) /\ FeedShort(line))
            => lineLog' = lineLog /\ MessagesOf(emitted') = <<>>]_vars
  /\ [](/\ Len(lineLog) = Len(NonBlankLines(fed))
        /\ \A i \in DOMAIN lineLog :
             <<lineLog[i]>> = outputToMessages(OutSid, ParseLine(NonBlankLines(fed)[i])))

\* C31 witness: a word, a whitespace-only line and a shell command were
\* written; the word and the command were classified, in that order.
C31_Witness ==
  /\ fed = <<"a", NL, " ", NL, "$", " ", "a", NL>>
  /\ Len(lineLog) = 2
  /\ lineLog[1].type = "output" /\ lineLog[1].content = <<"a">>
  /\ lineLog[2].type = "toolUse" /\ lineLog[2].status = "start"

\* The places of the raw output events among the emitted ones.
RawOutputsIn(emits) == {i \in DOMAIN emits : emits[i].ev = "rawOutput"}

\* C32: handling a chunk emits a raw output event if and only if the
\* ANSI-stripped chunk is not blank; there is one, its content is the
\* stripped chunk, and it comes after every classified-line event of the
\* lines the chunk completed.
C32_RawOutputLast ==
  [][\A data \in OutChunks :
       fed' = fed \o data =>
         /\ Cardinality(RawOutputsIn(emitted')) =
              (IF \E i \in DOMAIN stripAnsi(data) : stripAnsi(data)[i] \notin {" ", NL}
               THEN 1 ELSE 0)
         /\ \A i \in RawOutputsIn(emitted') :
              /\ emitted'[i].msg = [type |-> "output", sessionId |-> OutSid,
                                    content |-> stripAnsi(data), streamType |-> "stdout"]
              /\ i = Len(emitted')
         /\ Len(MessagesOf(emitted')) = Len(lineLog') - Len(lineLog)]_vars

\* C32 witness: a chunk that completed a line has just been handled: the
\* line's event was emitted first, the raw output event after it.
C32_Witness ==
  /\ Len(emitted) = 2
  /\ emitted[1].ev = "message" /\ emitted[2].ev = "rawOutput"
  /\ emitted[2].msg.content = <<"a", NL>>

\* The text after the last line terminator of a text.
TailOf(text) == Split(text)[Len(Split(text))]

\* C33: however the output is cut into chunks, after each chunk the
\* reassembly buffer holds exactly the text after the last line terminator
\* seen so far and no line terminator, the lines handed to the classifier
\* for a chunk are exactly the lines the chunk completed, and so the
\* classified-line events are those of the lines of the whole text.
C33_ChunkIndependent ==
  /\ [](/\ outputBuffer[OutSid] = TailOf(fed)
        /\ \A i \in DOMAIN outputBuffer[OutSid] : outputBuffer[OutSid][i] # NL
        /\ lineLog = outputToMessages(OutSid, parseOutput(Join(CompleteLines(fed)))))
  /\ [][\A data \in OutChunks :
          fed' = fed \o data =>
            LET lines == HoComplete(outputBuffer[OutSid], data)
            IN /\ CompleteLines(fed') = CompleteLines(fed) \o lines
               /\ lines # <<>> => Split(Join(lines)) = lines]_vars

\* C33 witness: after a complete line, the first half of a y/n affordance has
\* arrived without its terminator and waits in the buffer.
C33_Witness ==
  /\ outputBuffer[OutSid] = <<"[", "y", "/">>
  /\ Len(lineLog) = 1 /\ Len(CompleteLines(fed)) = 1

\* The places in what connection c was sent of the broadcast messages of
\* session s.
BroadcastsTo(c, s) ==
  {j \in DOMAIN sent[c] : ~IsDirect(sent[c][j]) /\ sent[c][j].sessionId = s}

\* C34: each event a Session emits is delivered at most once to each open
\* connection subscribed to it, whatever connections subscribed and closed
\* before: a connection is sent no more broadcast messages of a session than
\* the session emitted events.
C34_AtMostOnce ==
  \A c \in Conns : \A s \in Sids :
    Cardinality(BroadcastsTo(c, s)) <= Len(ForwardedOf(emitted, s))

\* C35: a connection is sent an event of session S only once it has sent
\* a command naming S and is in S's subscriber set, and only as the event is
\* emitted: what a Session emits while it has no subscriber reaches no
\* connection, the sessionStart of start() included, and nothing emitted by
\* an earlier handler is sent to a connection that subscribes later.
C35_NoReplay ==
  /\ \A c \in Conns : \A s \in Sids : \A j \in BroadcastsTo(c, s) :
       /\ commands[c][s] >= 1
       /\ c \in Subscribers(s)
       /\ \E k \in DOMAIN emitted : emitted[k].sid = s /\ emitted[k].msg = sent[c][j]
  /\ \A c \in Conns : \A j \in DOMAIN sent[c] : sent[c][j].type # "sessionStart"

\* C35 witness: a connection is open and a Session with no subscriber has
\* just emitted its sessionStart: no connection was sent anything.
C35_Witness ==
  \E c \in Conns : \E s \in Sids :
    /\ conn[c] = "open" /\ Subscribers(s) = {}
    /\ emitted = StartOkEmits(s)
    /\ sent = NoSent

\* C36: kill() is called only on a child process that has not exited:
\* every process the last handler signalled (stop() called directly, by the
\* stop route or by the shutdown) is one whose exit callback has not run.
C36_KillOnlyRunning ==
  \A s \in Sids : \A k \in DOMAIN procs[s] :
    <<s, k>> \in killed => procs[s][k] = "running"

\* A 'message' command with content, a 'confirm' command with an answer.
WellFormed(m) ==
  \/ m.type = "message" /\ m.content # <<>>
  \/ m.type = "confirm" /\ m.response \in {"y", "n"}

\* C37: every well-formed 'message' or 'confirm' command for a session of
\* the Registry ends in a write to the child process or in an error message
\* to the connection that sent it.
C37_WriteOrError ==
  [][\A c \in Conns : \A m \in ClientMessages :
       (WellFormed(m) /\ getSession(m.sessionId) # 0 /\ WsMessage(c, m))
         => \/ \E i \in DOMAIN written' : written'[i].sid = m.sessionId
            \/ \E j \in DOMAIN sent'[c] : sent'[c][j].type = "error"]_vars

\* C38: no classified-line event has empty content: a complete line whose
\* text is empty after ANSI stripping yields no event.
C38_NoEmptyContent ==
  /\ \A i \in DOMAIN lineLog : lineLog[i].content # <<>>
  /\ Len(lineLog) =
       Cardinality({i \in DOMAIN CompleteLines(fed) : stripAnsi(CompleteLines(fed)[i]) # <<>>
                                                        /\ IsNonBlank(CompleteLines(fed)[i])})

====
